---- MODULE Spec2Model ----
(***************************************************************************)
(* Model of the solsspace land program (land/program/src).                 *)
(*                                                                         *)
(*   state.rs      LandPlane / LandAsset records, their size-checked       *)
(*                 decoders and the spiral cursor LandPlane::increment_mint*)
(*   processor.rs  process_initialise_land_plane,                          *)
(*                 process_initialise_land_asset, process_mint_next        *)
(*                                                                         *)
(* Three specifications are defined:                                       *)
(*   Spec        the ledger (plane account, plot accounts) driven by the   *)
(*               three instructions and by the account set-up a client or  *)
(*               the unit tests perform;                                   *)
(*   SpecAdv     an in-memory LandPlane starting at (V1,0,0,0), driven by  *)
(*               increment_mint, as in test_land_plane_increment_land;     *)
(*   SpecAdvAny  increment_mint applied from every LandPlane value.        *)
(***************************************************************************)
EXTENDS Integers, Sequences, FiniteSets, TLC

VARIABLES
    land_plane_acc,  \* the plane account: lamports, data_len, decoded fields
    plots,           \* the plot accounts held by the ledger, by address
    req,             \* the last instruction submitted, with its accounts
    res,             \* what process_instruction returned for it
    accepted,        \* plot addresses of the MintNext calls that returned Ok
    lp,              \* an in-memory LandPlane (SpecAdv, SpecAdvAny)
    adv_res,         \* what the last increment_mint call on lp returned
    visited          \* the values lp has held, oldest first

vars == <<land_plane_acc, plots, req, res, accepted, lp, adv_res, visited>>

ledgerVars == <<land_plane_acc, plots, req, res, accepted>>
advVars == <<lp, adv_res, visited>>

(***************************************************************************)
(* Bounds                                                                  *)
(***************************************************************************)
\* stands for u64::MAX
MAX_U64 == 10
\* a plane set up directly by a client holds the cursor after 0..MaxSetSteps
\* increment_mint calls
MaxSetSteps == 3
\* at most this many MintNext calls are recorded as accepted
MaxMints == 2

(***************************************************************************)
(* state.rs: constants and record shapes                                   *)
(***************************************************************************)
LAND_PLANE_ACC_DATA_LEN == 1 + 8 + 8 + 8

LAND_ASSET_ACC_PREFIX == "solsspace-land"

LAND_ASSET_ACC_DATA_LEN == 1 + 32

\* borsh discriminants of LandPlaneVersion and LandAssetVersion
Uninitialised == 0
V1 == 1

\* LandError, plus the borsh error of a discriminant that names no variant
LandError ==
    { "AlreadyInUse", "SignatureError", "LandPlaneAccUninitialised",
      "NotRentExempt", "IncorrectDataSize", "LandComplete",
      "InvalidLandAssetAccKey", "LandAssetAccUninitialised" }

LandPlane(version, next_x, next_z, depth) ==
    [version |-> version, next_x |-> next_x, next_z |-> next_z, depth |-> depth]

LandAsset(version, mint_pubkey) ==
    [version |-> version, mint_pubkey |-> mint_pubkey]

(***************************************************************************)
(* Addresses                                                               *)
(***************************************************************************)
\* A Pubkey is either handed out by Pubkey::new_unique (no seeds) or derived
\* by find_program_address (the seeds and the deriving program).
new_unique(name) == [seeds |-> <<name>>, program_id |-> "none"]

\* crate::id()
program_id == "land_program"

\* the all-zero key a freshly allocated LandAsset decodes to
ZeroPubkey == new_unique("11111111111111111111111111111111")

nft_assoc_token_acc_owner_acc_pubkey == new_unique("owner")
land_plane_acc_pubkey == new_unique("plane")
other_land_plane_acc_pubkey == new_unique("other_plane")
land_asset_acc_wrong_pubkey == new_unique("wrong")
nft_assoc_token_acc_pubkey == new_unique("nft_token_acc")
nft_mint_acc_pubkey == new_unique("nft_mint")

\* the k low bytes of n, least significant first
RECURSIVE LeBytes(_, _)
LeBytes(n, k) ==
    IF k = 0 THEN <<>> ELSE <<n % 256>> \o LeBytes(n \div 256, k - 1)

\* u64::to_le_bytes: the eight little-endian bytes of n
to_le_bytes(n) == LeBytes(n, 8)

\* find_program_address with the coordinate seeds in the other order
find_program_address_swapped(plane_key, next_x, next_z, pid) ==
    [seeds |-> <<LAND_ASSET_ACC_PREFIX, plane_key,
                 to_le_bytes(next_z), to_le_bytes(next_x)>>,
     program_id |-> pid]

\* Pubkey::find_program_address over the four seeds of process_mint_next.
\* The hash is taken as collision free: the address is the list of seeds
\* and the program it was derived for.
find_program_address(plane_key, next_x, next_z, pid) ==
    [seeds |-> <<LAND_ASSET_ACC_PREFIX, plane_key,
                 to_le_bytes(next_x), to_le_bytes(next_z)>>,
     program_id |-> pid]

(***************************************************************************)
(* state.rs: LandPlane::increment_mint                                     *)
(***************************************************************************)
\* increment_mint with the first comparison off by one (next_z <= depth)
increment_mint_le(self) ==
    IF self.next_z <= self.depth
    THEN [res |-> "Ok",
          self |-> [self EXCEPT !.next_z = (self.next_z + 1) % (MAX_U64 + 1)]]
    ELSE IF self.next_x > 0
    THEN [res |-> "Ok", self |-> [self EXCEPT !.next_x = self.next_x - 1]]
    ELSE IF self.depth = MAX_U64
    THEN [res |-> "LandComplete", self |-> self]
    ELSE [res |-> "Ok",
          self |-> [self EXCEPT !.depth = (self.depth + 1) % (MAX_U64 + 1),
                                !.next_x = (self.depth + 1) % (MAX_U64 + 1),
                                !.next_z = 0]]

\* increment_mint that starts the new ring at next_x = 0
increment_mint_reset(self) ==
    IF self.next_z < self.depth
    THEN [res |-> "Ok", self |-> [self EXCEPT !.next_z = self.next_z + 1]]
    ELSE IF self.next_x > 0
    THEN [res |-> "Ok", self |-> [self EXCEPT !.next_x = self.next_x - 1]]
    ELSE IF self.depth = MAX_U64
    THEN [res |-> "LandComplete", self |-> self]
    ELSE [res |-> "Ok",
          self |-> [self EXCEPT !.depth = (self.depth + 1) % (MAX_U64 + 1),
                                !.next_x = 0,
                                !.next_z = 0]]

\* increment_mint that leaves the ring one plot early (next_x > 1)
increment_mint_early(self) ==
    IF self.next_z < self.depth
    THEN [res |-> "Ok", self |-> [self EXCEPT !.next_z = self.next_z + 1]]
    ELSE IF self.next_x > 1
    THEN [res |-> "Ok", self |-> [self EXCEPT !.next_x = self.next_x - 1]]
    ELSE IF self.depth = MAX_U64
    THEN [res |-> "LandComplete", self |-> self]
    ELSE [res |-> "Ok",
          self |-> [self EXCEPT !.depth = (self.depth + 1) % (MAX_U64 + 1),
                                !.next_x = (self.depth + 1) % (MAX_U64 + 1),
                                !.next_z = 0]]

\* increment_mint without the u64::MAX check: depth wraps to 0
increment_mint_wrap(self) ==
    IF self.next_z < self.depth
    THEN [res |-> "Ok", self |-> [self EXCEPT !.next_z = self.next_z + 1]]
    ELSE IF self.next_x > 0
    THEN [res |-> "Ok", self |-> [self EXCEPT !.next_x = self.next_x - 1]]
    ELSE [res |-> "Ok",
          self |-> [self EXCEPT !.depth = (self.depth + 1) % (MAX_U64 + 1),
                                !.next_x = (self.depth + 1) % (MAX_U64 + 1),
                                !.next_z = 0]]

\* increment_mint that tests next_x before next_z
increment_mint_xfirst(self) ==
    IF self.next_x > 0
    THEN [res |-> "Ok", self |-> [self EXCEPT !.next_x = self.next_x - 1]]
    ELSE IF self.next_z < self.depth
    THEN [res |-> "Ok", self |-> [self EXCEPT !.next_z = self.next_z + 1]]
    ELSE IF self.depth = MAX_U64
    THEN [res |-> "LandComplete", self |-> self]
    ELSE [res |-> "Ok",
          self |-> [self EXCEPT !.depth = (self.depth + 1) % (MAX_U64 + 1),
                                !.next_x = (self.depth + 1) % (MAX_U64 + 1),
                                !.next_z = 0]]

\* Returns the ProgramResult and the value of self after the call.
increment_mint(self) ==
    IF self.next_z < self.depth
    THEN [res |-> "Ok", self |-> [self EXCEPT !.next_z = self.next_z + 1]]
    ELSE IF self.next_x > 0
    THEN [res |-> "Ok", self |-> [self EXCEPT !.next_x = self.next_x - 1]]
    ELSE IF self.depth = MAX_U64
    THEN [res |-> "LandComplete", self |-> self]
    ELSE [res |-> "Ok",
          self |-> [self EXCEPT !.depth = (self.depth + 1) % (MAX_U64 + 1),
                                !.next_x = (self.depth + 1) % (MAX_U64 + 1),
                                !.next_z = 0]]

\* lp after n increment_mint calls (the loop of test_land_plane_increment_land)
RECURSIVE AfterIncrements(_, _)
AfterIncrements(self, n) ==
    IF n = 0 THEN self ELSE AfterIncrements(increment_mint(self).self, n - 1)

(***************************************************************************)
(* Accounts and their decoders                                             *)
(***************************************************************************)
\* SolanaAccount::new(lamports, LAND_PLANE..., &program_id): zeroed data
NewPlaneAccount(lamports, data_len) ==
    [lamports |-> lamports, data_len |-> data_len,
     data |-> LandPlane(Uninitialised, 0, 0, 0)]

\* SolanaAccount::new(1, LAND_ASSET_ACC_DATA_LEN, ..): zeroed data
NewPlotAccount(data_len) ==
    [data_len |-> data_len, data |-> LandAsset(Uninitialised, ZeroPubkey)]

\* from_account_info that only rejects data that is too short
LandPlane_from_account_info_min(a) ==
    IF a.data_len < LAND_PLANE_ACC_DATA_LEN
    THEN [err |-> "IncorrectDataSize", val |-> a.data]
    ELSE IF a.data.version \notin {Uninitialised, V1}
    THEN [err |-> "BorshIoError", val |-> a.data]
    ELSE [err |-> "none", val |-> a.data]

\* LandPlane::from_account_info
LandPlane_from_account_info(a) ==
    IF a.data_len # LAND_PLANE_ACC_DATA_LEN
    THEN [err |-> "IncorrectDataSize", val |-> a.data]
    ELSE IF a.data.version \notin {Uninitialised, V1}
    THEN [err |-> "BorshIoError", val |-> a.data]
    ELSE [err |-> "none", val |-> a.data]

\* LandAsset::from_account_info
LandAsset_from_account_info(a) ==
    IF a.data_len # LAND_ASSET_ACC_DATA_LEN
    THEN [err |-> "IncorrectDataSize", val |-> a.data]
    ELSE IF a.data.version \notin {Uninitialised, V1}
    THEN [err |-> "BorshIoError", val |-> a.data]
    ELSE [err |-> "none", val |-> a.data]

\* Rent::default().minimum_balance(data_len): (128 + len) bytes at 3480
\* lamports per byte-year, exempt after 2 years
minimum_balance(data_len) == ((128 + data_len) * 3480) * 2

\* is_exempt with a strict comparison
is_exempt_strict(lamports, data_len) == lamports > minimum_balance(data_len)

\* Rent::is_exempt
is_exempt(lamports, data_len) == lamports >= minimum_balance(data_len)

\* land_plane_minimum_balance() of the processor tests
land_plane_minimum_balance == minimum_balance(LAND_PLANE_ACC_DATA_LEN)

(***************************************************************************)
(* processor.rs: the instruction handlers                                  *)
(***************************************************************************)
\* process_initialise_land_plane that sets the version before the rent check
process_initialise_land_plane_early_write(acc) ==
    LET land_plane_acc_state == LandPlane_from_account_info(acc) IN
    IF land_plane_acc_state.err # "none"
    THEN [res |-> land_plane_acc_state.err, acc |-> acc]
    ELSE IF land_plane_acc_state.val.version # Uninitialised
    THEN [res |-> "AlreadyInUse", acc |-> acc]
    ELSE IF ~is_exempt(acc.lamports, LAND_PLANE_ACC_DATA_LEN)
    THEN [res |-> "NotRentExempt",
          acc |-> [acc EXCEPT !.data = LandPlane(V1, 0, 0, 0)]]
    ELSE [res |-> "Ok", acc |-> [acc EXCEPT !.data = LandPlane(V1, 0, 0, 0)]]

\* process_initialise_land_plane without the AlreadyInUse check
process_initialise_land_plane_reinit(acc) ==
    LET land_plane_acc_state == LandPlane_from_account_info(acc) IN
    IF land_plane_acc_state.err # "none"
    THEN [res |-> land_plane_acc_state.err, acc |-> acc]
    ELSE IF ~is_exempt(acc.lamports, LAND_PLANE_ACC_DATA_LEN)
    THEN [res |-> "NotRentExempt", acc |-> acc]
    ELSE [res |-> "Ok", acc |-> [acc EXCEPT !.data = LandPlane(V1, 0, 0, 0)]]

\* process_initialise_land_plane that checks rent before the version
process_initialise_land_plane_rent_first(acc) ==
    LET land_plane_acc_state == LandPlane_from_account_info(acc) IN
    IF land_plane_acc_state.err # "none"
    THEN [res |-> land_plane_acc_state.err, acc |-> acc]
    ELSE IF ~is_exempt(acc.lamports, LAND_PLANE_ACC_DATA_LEN)
    THEN [res |-> "NotRentExempt", acc |-> acc]
    ELSE IF land_plane_acc_state.val.version # Uninitialised
    THEN [res |-> "AlreadyInUse", acc |-> acc]
    ELSE [res |-> "Ok", acc |-> [acc EXCEPT !.data = LandPlane(V1, 0, 0, 0)]]

\* process_initialise_land_plane: the ProgramResult and the plane account
\* as it is left.  The second account is the rent sysvar, as built by
\* instruction::initialize_land_plane.
process_initialise_land_plane(acc) ==
    LET land_plane_acc_state == LandPlane_from_account_info(acc) IN
    IF land_plane_acc_state.err # "none"
    THEN [res |-> land_plane_acc_state.err, acc |-> acc]
    ELSE IF land_plane_acc_state.val.version # Uninitialised
    THEN [res |-> "AlreadyInUse", acc |-> acc]
    ELSE IF ~is_exempt(acc.lamports, LAND_PLANE_ACC_DATA_LEN)
    THEN [res |-> "NotRentExempt", acc |-> acc]
    ELSE [res |-> "Ok", acc |-> [acc EXCEPT !.data = LandPlane(V1, 0, 0, 0)]]

\* the InitialiseLandPlane arm, were it to insist on a signature
initialise_land_plane_signed(is_signer, acc) ==
    IF ~is_signer
    THEN [res |-> "SignatureError", acc |-> acc]
    ELSE process_initialise_land_plane(acc)

\* process_instruction, InitialiseLandPlane arm: the handler is given the
\* account infos, signer bit of the plane account included, and never reads
\* the bit
initialise_land_plane(is_signer, acc) == process_initialise_land_plane(acc)

\* process_initialise_land_asset
process_initialise_land_asset(acc) == [res |-> "Ok", acc |-> acc]

\* process_mint_next with one of its checks left out: skip is "signer",
\* "plane_version" or "asset_version"
mint_next_skipping(skip, is_signer, asset_key, asset_acc, plane_key, plane_acc) ==
    IF skip # "signer" /\ ~is_signer
    THEN "SignatureError"
    ELSE LET land_plane_acc_state == LandPlane_from_account_info(plane_acc) IN
    IF land_plane_acc_state.err # "none"
    THEN land_plane_acc_state.err
    ELSE IF skip # "plane_version"
            /\ land_plane_acc_state.val.version = Uninitialised
    THEN "LandPlaneAccUninitialised"
    ELSE LET next_land_asset_acc_key ==
                 find_program_address(plane_key,
                                      land_plane_acc_state.val.next_x,
                                      land_plane_acc_state.val.next_z,
                                      program_id) IN
    IF asset_key # next_land_asset_acc_key
    THEN "InvalidLandAssetAccKey"
    ELSE LET land_asset_acc_state ==
                 LandAsset_from_account_info(asset_acc) IN
    IF land_asset_acc_state.err # "none"
    THEN land_asset_acc_state.err
    ELSE IF skip # "asset_version"
            /\ land_asset_acc_state.val.version = Uninitialised
    THEN "LandAssetAccUninitialised"
    ELSE "Ok"

\* process_mint_next without the signer check
process_mint_next_unsigned(is_signer, asset_key, asset_acc, plane_key, plane_acc) ==
    mint_next_skipping("signer", is_signer, asset_key, asset_acc,
                       plane_key, plane_acc)

\* process_mint_next without the plane version check
process_mint_next_any_plane(is_signer, asset_key, asset_acc, plane_key, plane_acc) ==
    mint_next_skipping("plane_version", is_signer, asset_key, asset_acc,
                       plane_key, plane_acc)

\* process_mint_next without the plot version check
process_mint_next_any_asset(is_signer, asset_key, asset_acc, plane_key, plane_acc) ==
    mint_next_skipping("asset_version", is_signer, asset_key, asset_acc,
                       plane_key, plane_acc)

\* process_mint_next that decodes the plot account before comparing its key
process_mint_next_plot_first(is_signer, asset_key, asset_acc, plane_key, plane_acc) ==
    IF ~is_signer
    THEN "SignatureError"
    ELSE LET land_plane_acc_state == LandPlane_from_account_info(plane_acc) IN
    IF land_plane_acc_state.err # "none"
    THEN land_plane_acc_state.err
    ELSE IF land_plane_acc_state.val.version = Uninitialised
    THEN "LandPlaneAccUninitialised"
    ELSE LET land_asset_acc_state ==
                 LandAsset_from_account_info(asset_acc) IN
    IF land_asset_acc_state.err # "none"
    THEN land_asset_acc_state.err
    ELSE IF land_asset_acc_state.val.version = Uninitialised
    THEN "LandAssetAccUninitialised"
    ELSE LET next_land_asset_acc_key ==
                 find_program_address(plane_key,
                                      land_plane_acc_state.val.next_x,
                                      land_plane_acc_state.val.next_z,
                                      program_id) IN
    IF asset_key # next_land_asset_acc_key
    THEN "InvalidLandAssetAccKey"
    ELSE "Ok"

\* process_mint_next: the ProgramResult.  No account is written.
process_mint_next(is_signer, asset_key, asset_acc, plane_key, plane_acc) ==
    IF ~is_signer
    THEN "SignatureError"
    ELSE LET land_plane_acc_state == LandPlane_from_account_info(plane_acc) IN
    IF land_plane_acc_state.err # "none"
    THEN land_plane_acc_state.err
    ELSE IF land_plane_acc_state.val.version = Uninitialised
    THEN "LandPlaneAccUninitialised"
    ELSE LET next_land_asset_acc_key ==
                 find_program_address(plane_key,
                                      land_plane_acc_state.val.next_x,
                                      land_plane_acc_state.val.next_z,
                                      program_id) IN
    IF asset_key # next_land_asset_acc_key
    THEN "InvalidLandAssetAccKey"
    ELSE LET land_asset_acc_state ==
                 LandAsset_from_account_info(asset_acc) IN
    IF land_asset_acc_state.err # "none"
    THEN land_asset_acc_state.err
    ELSE IF land_asset_acc_state.val.version = Uninitialised
    THEN "LandAssetAccUninitialised"
    ELSE "Ok"

(***************************************************************************)
(* The inputs a client can supply                                          *)
(***************************************************************************)
Origin == LandPlane(V1, 0, 0, 0)

\* data lengths of the plane and plot accounts a client creates
PlaneLens == (LAND_PLANE_ACC_DATA_LEN - 1)..(LAND_PLANE_ACC_DATA_LEN + 1)
PlotLens == (LAND_ASSET_ACC_DATA_LEN - 1)..(LAND_ASSET_ACC_DATA_LEN + 1)

\* balances of the plane account: the 42 of the tests, just below the
\* rent-exempt minimum, and the minimum
PlaneLamports ==
    {42, land_plane_minimum_balance - 1, land_plane_minimum_balance}

\* version bytes of a plot account: the two variants and a byte naming none
PlotVersionBytes == {Uninitialised, V1, 2}

\* plot addresses of the plane for the cursors a client can set up
PlaneCursorKeys ==
    { find_program_address(land_plane_acc_pubkey,
                           AfterIncrements(Origin, n).next_x,
                           AfterIncrements(Origin, n).next_z, program_id) :
      n \in 0..MaxSetSteps }

\* the addresses a MintNext request may name as its plot slot
ReqPlotKeys ==
    PlaneCursorKeys
    \cup { find_program_address(other_land_plane_acc_pubkey, 0, 0, program_id),
           land_asset_acc_wrong_pubkey }

\* the plot accounts whose contents vary
LedgerPlotKeys ==
    { find_program_address(land_plane_acc_pubkey, 0, 0, program_id),
      find_program_address(land_plane_acc_pubkey, 0, 1, program_id) }

\* the token holding account handed to MintNext (accounts 3 and 4)
TokenAccounts ==
    { [owner |-> nft_assoc_token_acc_owner_acc_pubkey,
       mint |-> nft_mint_acc_pubkey, amount |-> 1],
      [owner |-> land_asset_acc_wrong_pubkey,
       mint |-> nft_mint_acc_pubkey, amount |-> 1],
      [owner |-> nft_assoc_token_acc_owner_acc_pubkey,
       mint |-> nft_mint_acc_pubkey, amount |-> 0] }

NoTokenAccount == [owner |-> ZeroPubkey, mint |-> ZeroPubkey, amount |-> 0]

\* every other plot account is an initialised, correctly sized LandAsset
AccountAt(key) ==
    IF key \in DOMAIN plots
    THEN plots[key]
    ELSE [data_len |-> LAND_ASSET_ACC_DATA_LEN,
          data |-> LandAsset(V1, nft_mint_acc_pubkey)]

Request(op, is_signer, plot_key, token_acc) ==
    [op |-> op, is_signer |-> is_signer, plot_key |-> plot_key,
     token_acc |-> token_acc]

NoRequest == Request("none", FALSE, land_asset_acc_wrong_pubkey, NoTokenAccount)

(***************************************************************************)
(* Spec: the ledger                                                        *)
(***************************************************************************)
Init ==
    /\ land_plane_acc = NewPlaneAccount(42, LAND_PLANE_ACC_DATA_LEN)
    /\ plots = [k \in LedgerPlotKeys |-> NewPlotAccount(LAND_ASSET_ACC_DATA_LEN)]
    /\ req = NoRequest
    /\ res = "none"
    /\ accepted = <<>>
    /\ lp = Origin
    /\ adv_res = "none"
    /\ visited = <<Origin>>

\* a client creates the plane account anew, zeroed, with some data length
CreatePlaneAccount ==
    \E data_len \in PlaneLens :
        /\ land_plane_acc' = NewPlaneAccount(42, data_len)
        /\ req' = NoRequest
        /\ res' = "none"
        /\ accepted' = <<>>
        /\ UNCHANGED <<plots, advVars>>

\* a client funds the plane account
FundPlaneAccount ==
    \E lamports \in PlaneLamports :
        /\ land_plane_acc' = [land_plane_acc EXCEPT !.lamports = lamports]
        /\ req' = NoRequest
        /\ res' = "none"
        /\ UNCHANGED <<plots, accepted, advVars>>

\* a client hands in a plane account whose data is a LandPlane part of the
\* way through the spiral; in an account of another length these are the
\* fields its leading bytes spell
SetPlaneData ==
    \E n \in 0..MaxSetSteps :
        /\ land_plane_acc' =
               [land_plane_acc EXCEPT !.data = AfterIncrements(Origin, n)]
        /\ req' = NoRequest
        /\ res' = "none"
        /\ accepted' = <<>>
        /\ UNCHANGED <<plots, advVars>>

\* a client hands in a plot account with some data length and version byte
SetPlotAccount ==
    \E key \in LedgerPlotKeys, data_len \in PlotLens,
       version \in PlotVersionBytes :
        /\ version \in {Uninitialised, V1} \/ data_len = LAND_ASSET_ACC_DATA_LEN
        /\ plots' = [plots EXCEPT ![key] =
               IF version = Uninitialised
               THEN NewPlotAccount(data_len)
               ELSE [data_len |-> data_len,
                     data |-> LandAsset(version, nft_mint_acc_pubkey)]]
        /\ req' = NoRequest
        /\ res' = "none"
        /\ UNCHANGED <<land_plane_acc, accepted, advVars>>

\* LandInstruction::InitialiseLandPlane
InitialiseLandPlane ==
    \E is_signer \in BOOLEAN :
        LET r == initialise_land_plane(is_signer, land_plane_acc) IN
            /\ land_plane_acc' = r.acc
            /\ req' = Request("InitialiseLandPlane", is_signer,
                              land_asset_acc_wrong_pubkey, NoTokenAccount)
            /\ res' = r.res
            /\ UNCHANGED <<plots, accepted, advVars>>

\* LandInstruction::InitialiseLandAsset
InitialiseLandAsset ==
    \E key \in LedgerPlotKeys :
        LET r == process_initialise_land_asset(plots[key]) IN
            /\ plots' = [plots EXCEPT ![key] = r.acc]
            /\ req' = Request("InitialiseLandAsset", TRUE, key, NoTokenAccount)
            /\ res' = r.res
            /\ UNCHANGED <<land_plane_acc, accepted, advVars>>

\* LandInstruction::MintNext
MintNext ==
    \E is_signer \in BOOLEAN, key \in ReqPlotKeys, token_acc \in TokenAccounts :
        LET r == process_mint_next(is_signer, key, AccountAt(key),
                                   land_plane_acc_pubkey, land_plane_acc) IN
            /\ Len(accepted) < MaxMints
            /\ req' = Request("MintNext", is_signer, key, token_acc)
            /\ res' = r
            /\ accepted' = IF r = "Ok" THEN Append(accepted, key) ELSE accepted
            /\ UNCHANGED <<land_plane_acc, plots, advVars>>

Next ==
    \/ CreatePlaneAccount
    \/ FundPlaneAccount
    \/ SetPlaneData
    \/ SetPlotAccount
    \/ InitialiseLandPlane
    \/ InitialiseLandAsset
    \/ MintNext

Spec == Init /\ [][Next]_vars

(***************************************************************************)
(* SpecAdv, SpecAdvAny: increment_mint on an in-memory LandPlane           *)
(***************************************************************************)
U64 == 0..MAX_U64

\* test_land_plane_increment_land: a new land plane
InitAdv == Init

\* every LandPlane value
InitAdvAny ==
    /\ land_plane_acc = NewPlaneAccount(42, LAND_PLANE_ACC_DATA_LEN)
    /\ plots = [k \in LedgerPlotKeys |-> NewPlotAccount(LAND_ASSET_ACC_DATA_LEN)]
    /\ req = NoRequest
    /\ res = "none"
    /\ accepted = <<>>
    /\ \E version \in {Uninitialised, V1}, next_x \in U64, next_z \in U64,
          depth \in U64 :
           lp = LandPlane(version, next_x, next_z, depth)
    /\ adv_res = "none"
    /\ visited = <<lp>>

\* lp.increment_mint()
IncrementMint ==
    LET r == increment_mint(lp) IN
        /\ lp' = r.self
        /\ adv_res' = r.res
        /\ visited' = IF r.res = "Ok" THEN Append(visited, r.self) ELSE visited
        /\ UNCHANGED ledgerVars

NextAdv == IncrementMint

SpecAdv == InitAdv /\ [][NextAdv]_vars

SpecAdvAny == InitAdvAny /\ [][NextAdv]_vars

(***************************************************************************)
(* Properties                                                              *)
(***************************************************************************)
\* the plane account decodes to an initialised LandPlane
PlaneIsV1(acc) ==
    acc.data_len = LAND_PLANE_ACC_DATA_LEN /\ acc.data.version = V1

\* derive("solsspace-land", plane address, next_x, next_z), written out
DerivedPlotAddress(plane_key, next_x, next_z) ==
    [seeds |-> <<"solsspace-land", plane_key, LeBytes(next_x, 8),
                 LeBytes(next_z, 8)>>,
     program_id |-> program_id]

\* instruction.rs, MintNext account 3: the token account is owned by the
\* given owner and holds a balance of 1 of the given mint
token_owned_by(owner, mint, token_acc) ==
    /\ token_acc.owner = owner
    /\ token_acc.mint = mint
    /\ token_acc.amount = 1

\* C1: for a signed MintNext on an initialised plane, the address derived
\* from the plane's cursor is the only plot address that passes the address
\* check; every other address is rejected with InvalidLandAssetAccKey and
\* MintNext never returns Ok for it.
C1_AddressBinding ==
    [][(req'.op = "MintNext" /\ req'.is_signer /\ PlaneIsV1(land_plane_acc))
       => LET expected == DerivedPlotAddress(land_plane_acc_pubkey,
                                             land_plane_acc.data.next_x,
                                             land_plane_acc.data.next_z) IN
          /\ (req'.plot_key # expected) = (res' = "InvalidLandAssetAccKey")
          /\ (res' = "Ok" => req'.plot_key = expected)]_vars

\* C1 witness: a signed MintNext on a plane whose cursor has left (0,0),
\* naming the address derived for the coordinate pair (0,0), is rejected
C1_Witness ==
    /\ req.op = "MintNext" /\ req.is_signer
    /\ PlaneIsV1(land_plane_acc)
    /\ <<land_plane_acc.data.next_x, land_plane_acc.data.next_z>> = <<1, 1>>
    /\ req.plot_key = DerivedPlotAddress(land_plane_acc_pubkey, 0, 0)
    /\ res = "InvalidLandAssetAccKey"

\* C2: no plot address is accepted by more than one successful MintNext
C2_NoAddressAcceptedTwice ==
    \A i, j \in 1..Len(accepted) : i # j => accepted[i] # accepted[j]

\* C3: a MintNext that returns Ok leaves the plane record equal to
\* advance(the record before), and no other instruction changes the cursor
\* of an initialised plane
C3_PlaneAdvancedOncePerMint ==
    [][/\ (req'.op = "MintNext" /\ res' = "Ok")
           => land_plane_acc'.data = increment_mint(land_plane_acc.data).self
       /\ (req'.op \in {"InitialiseLandPlane", "InitialiseLandAsset"}
             /\ PlaneIsV1(land_plane_acc))
           => land_plane_acc'.data = land_plane_acc.data]_vars

\* C4: MintNext returns Ok only if the token account is owned by the signing
\* owner and holds exactly 1 of the given mint
C4_MintRequiresTokenOwnership ==
    (req.op = "MintNext" /\ res = "Ok")
        => token_owned_by(nft_assoc_token_acc_owner_acc_pubkey,
                          nft_mint_acc_pubkey, req.token_acc)

\* C5: when InitialisePlane or MintNext returns an error, the plane record
\* and the plot records are what they were before the request
C5_AtomicRejection ==
    [][(req'.op \in {"InitialiseLandPlane", "MintNext"} /\ res' # "Ok")
       => (land_plane_acc' = land_plane_acc /\ plots' = plots)]_vars

\* C5 witness: InitialisePlane was rejected after the size and version
\* checks had passed
C5_Witness ==
    /\ req.op = "InitialiseLandPlane"
    /\ res = "NotRentExempt"
    /\ land_plane_acc.lamports = land_plane_minimum_balance - 1

\* C6: increment_mint follows the three-case spiral rule from every state
\* and never changes the version
C6_SpiralRule ==
    [][/\ lp'.version = lp.version
       /\ IF lp.next_z < lp.depth
          THEN /\ adv_res' = "Ok"
               /\ lp'.next_z = lp.next_z + 1
               /\ lp'.next_x = lp.next_x
               /\ lp'.depth = lp.depth
          ELSE IF lp.next_x > 0
          THEN /\ adv_res' = "Ok"
               /\ lp'.next_x = lp.next_x - 1
               /\ lp'.next_z = lp.next_z
               /\ lp'.depth = lp.depth
          ELSE IF lp.depth = MAX_U64
          THEN /\ adv_res' = "LandComplete"
               /\ lp' = lp
          ELSE /\ adv_res' = "Ok"
               /\ lp'.depth = lp.depth + 1
               /\ lp'.next_x = lp.depth + 1
               /\ lp'.next_z = 0]_vars

\* C6 witness: a call has started a new ring from a state off the spiral
C6_Witness ==
    /\ adv_res = "Ok"
    /\ Len(visited) = 2
    /\ visited[1].next_x = 0 /\ visited[1].next_z > visited[1].depth
    /\ lp.depth = visited[1].depth + 1
    /\ lp.next_x = lp.depth /\ lp.next_z = 0

\* C7: from (0,0,0), no coordinate pair is held twice
C7_Uniqueness ==
    \A i, j \in 1..Len(visited) :
        i # j => <<visited[i].next_x, visited[i].next_z>>
                   # <<visited[j].next_x, visited[j].next_z>>

\* C7 witness: the cursor has gone through three rings
C7_Witness ==
    /\ Len(visited) = 16
    /\ lp.depth = 3
    /\ adv_res = "Ok"

\* the coordinate pairs of the first n values held
PairsUpTo(n) == { <<visited[i].next_x, visited[i].next_z>> : i \in 1..n }

Max(a, b) == IF a >= b THEN a ELSE b

\* C8: when a call raises depth from d to d+1 the pairs held so far are
\* exactly (0..d) x (0..d), and a pair is held only after every pair of a
\* smaller ring
C8_RingCoverage ==
    /\ \A i \in 1..(Len(visited) - 1) :
           visited[i + 1].depth = visited[i].depth + 1
               => PairsUpTo(i) = (0..visited[i].depth) \X (0..visited[i].depth)
    /\ \A i \in 1..Len(visited) :
           LET m == Max(visited[i].next_x, visited[i].next_z) IN
           \A x \in 0..(m - 1), z \in 0..(m - 1) : <<x, z>> \in PairsUpTo(i - 1)

\* C8 witness: depth has just been raised from 2 to 3
C8_Witness ==
    /\ Len(visited) = 10
    /\ visited[9].depth = 2
    /\ lp.depth = 3 /\ lp.next_x = 3 /\ lp.next_z = 0

\* the ring at the largest depth is complete
Exhausted(p) == p.depth = MAX_U64 /\ p.next_x = 0 /\ p.next_z = p.depth

\* C9: once depth is the maximum and the ring is complete, increment_mint
\* fails with LandComplete and leaves the plane unchanged, on every call
C9_ExhaustionTerminal ==
    [][Exhausted(lp) => (adv_res' = "LandComplete" /\ lp' = lp)]_vars

\* C9 witness: a call on the exhausted plane has failed
C9_Witness ==
    /\ Exhausted(lp)
    /\ adv_res = "LandComplete"
    /\ Len(visited) = (MAX_U64 + 1) * (MAX_U64 + 1)

\* C10: InitialisePlane on a 25-byte Uninitialised slot fails with
\* NotRentExempt below the rent-exempt minimum, leaving it Uninitialised,
\* and otherwise succeeds and writes (V1, 0, 0, 0)
C10_InitialisePlane ==
    [][(/\ req'.op = "InitialiseLandPlane"
        /\ land_plane_acc.data_len = 25
        /\ land_plane_acc.data.version = Uninitialised)
       => IF land_plane_acc.lamports < land_plane_minimum_balance
          THEN /\ res' = "NotRentExempt"
               /\ land_plane_acc'.data.version = Uninitialised
          ELSE /\ res' = "Ok"
               /\ land_plane_acc'.data = LandPlane(V1, 0, 0, 0)]_vars

\* C10 witness: a slot funded with exactly the minimum was initialised
C10_Witness ==
    /\ req.op = "InitialiseLandPlane"
    /\ res = "Ok"
    /\ land_plane_acc.lamports = land_plane_minimum_balance
    /\ land_plane_acc.data = LandPlane(V1, 0, 0, 0)

\* C11: InitialisePlane on a plane that is already V1, whatever its cursor,
\* fails with AlreadyInUse and leaves the record unchanged; a second
\* InitialisePlane right after a successful one fails with AlreadyInUse
C11_IdempotentRejection ==
    [][/\ (req'.op = "InitialiseLandPlane" /\ PlaneIsV1(land_plane_acc))
           => /\ res' = "AlreadyInUse"
              /\ land_plane_acc'.data = land_plane_acc.data
       /\ (req'.op = "InitialiseLandPlane" /\ req.op = "InitialiseLandPlane"
             /\ res = "Ok")
           => /\ res' = "AlreadyInUse"
              /\ land_plane_acc'.data = LandPlane(V1, 0, 0, 0)]_vars

\* C11 witness: a funded plane part of the way through the spiral was
\* handed to InitialisePlane and was kept
C11_Witness ==
    /\ req.op = "InitialiseLandPlane"
    /\ res = "AlreadyInUse"
    /\ land_plane_acc.lamports = land_plane_minimum_balance
    /\ land_plane_acc.data = LandPlane(V1, 1, 1, 1)

\* the integer square root of n
Isqrt(n) == CHOOSE d \in 0..n : d * d <= n /\ n < (d + 1) * (d + 1)

\* the plane the closed form gives for n successful calls
ClosedForm(n) ==
    LET d == Isqrt(n)
        k == n - d * d
    IN  IF k <= d THEN LandPlane(V1, d, k, d) ELSE LandPlane(V1, 2 * d - k, d, d)

\* C12: after n successful increment_mint calls from (V1,0,0,0) the plane is
\* the closed form of n (n = 8 gives (0,2,2), n = 11 gives (3,2,3)), and no
\* call fails before the plane is exhausted
C12_ClosedForm ==
    /\ \A i \in 1..Len(visited) : visited[i] = ClosedForm(i - 1)
    /\ lp = visited[Len(visited)]
    /\ Len(visited) > 8 => visited[9] = LandPlane(V1, 0, 2, 2)
    /\ Len(visited) > 11 => visited[12] = LandPlane(V1, 3, 2, 3)
    /\ adv_res = "LandComplete"
           => Len(visited) = (MAX_U64 + 1) * (MAX_U64 + 1)

\* C12 witness: eleven calls have been made and all returned Ok
C12_Witness ==
    /\ Len(visited) = 12
    /\ adv_res = "Ok"
    /\ lp = LandPlane(V1, 3, 2, 3)

\* the first n pairs (next_x, next_z) held are the first n of seq
FirstPairsAre(seq) ==
    \A i \in 1..Len(seq) :
        i <= Len(visited)
            => <<visited[i].next_x, visited[i].next_z>> = seq[i]

\* C13 as stated: the pairs held in order are (0,0), (0,1), (1,1), (1,0),
\* then (2,0), (2,1), (2,2), (1,2), (0,2)
C13_SequenceAsStated ==
    FirstPairsAre(<< <<0, 0>>, <<0, 1>>, <<1, 1>>, <<1, 0>>,
                     <<2, 0>>, <<2, 1>>, <<2, 2>>, <<1, 2>>, <<0, 2>> >>)

\* C13 amended: the pairs held in order are (0,0), (1,0), (1,1), (0,1),
\* then (2,0), (2,1), (2,2), (1,2), (0,2)
C13_Sequence ==
    FirstPairsAre(<< <<0, 0>>, <<1, 0>>, <<1, 1>>, <<0, 1>>,
                     <<2, 0>>, <<2, 1>>, <<2, 2>>, <<1, 2>>, <<0, 2>> >>)

\* C13 witness: the ring of depth 2 has been walked to its end
C13_Witness ==
    /\ Len(visited) = 9
    /\ lp = LandPlane(V1, 0, 2, 2)

\* C14: depth never decreases, grows by at most 1 per call, and grows by 1
\* exactly on the calls made when the ring is complete below the maximum
C14_MonotonicRingGrowth ==
    [][/\ lp'.depth >= lp.depth
       /\ lp'.depth <= lp.depth + 1
       /\ (lp'.depth = lp.depth + 1)
              = (lp.next_x = 0 /\ lp.next_z = lp.depth /\ lp.depth < MAX_U64)
       /\ ~(lp.next_x = 0 /\ lp.next_z = lp.depth /\ lp.depth < MAX_U64)
              => lp'.depth = lp.depth]_vars

\* C14 witness: the call on the complete ring of depth 1 raised depth to 2
C14_Witness ==
    /\ Len(visited) = 5
    /\ visited[4] = LandPlane(V1, 0, 1, 1)
    /\ lp.depth = 2

\* C15: a MintNext whose owner account is not a signer fails with
\* SignatureError
C15_UnsignedRejected ==
    [][(req'.op = "MintNext" /\ ~req'.is_signer)
           => res' = "SignatureError"]_vars

\* C15 witness: an unsigned MintNext was rejected although the plane and
\* the plot it names are initialised and the plot address is the derived
\* one
C15_Witness ==
    /\ req.op = "MintNext" /\ ~req.is_signer
    /\ res = "SignatureError"
    /\ PlaneIsV1(land_plane_acc)
    /\ req.plot_key
           = DerivedPlotAddress(land_plane_acc_pubkey,
                                land_plane_acc.data.next_x,
                                land_plane_acc.data.next_z)
    /\ AccountAt(req.plot_key).data_len = LAND_ASSET_ACC_DATA_LEN
    /\ AccountAt(req.plot_key).data.version = V1

\* C16: a signed MintNext against a 25-byte plane whose version is
\* Uninitialised fails with LandPlaneAccUninitialised, whatever plot address
\* and plot record come with it
C16_UninitialisedPlaneRejected ==
    [][(/\ req'.op = "MintNext" /\ req'.is_signer
        /\ land_plane_acc.data_len = 25
        /\ land_plane_acc.data.version = Uninitialised)
           => res' = "LandPlaneAccUninitialised"]_vars

\* C16 witness: the request named the plot address of (0,0), whose account
\* is an initialised plot, and was rejected for the plane
C16_Witness ==
    /\ req.op = "MintNext" /\ req.is_signer
    /\ res = "LandPlaneAccUninitialised"
    /\ land_plane_acc.data_len = 25
    /\ land_plane_acc.data.version = Uninitialised
    /\ req.plot_key = DerivedPlotAddress(land_plane_acc_pubkey, 0, 0)
    /\ AccountAt(req.plot_key).data_len = LAND_ASSET_ACC_DATA_LEN
    /\ AccountAt(req.plot_key).data.version = V1

\* C17: a signed MintNext against an initialised plane, naming the address
\* derived from the cursor, whose 33-byte plot record is Uninitialised,
\* fails with LandAssetAccUninitialised
C17_UninitialisedPlotRejected ==
    [][(/\ req'.op = "MintNext" /\ req'.is_signer
        /\ PlaneIsV1(land_plane_acc)
        /\ req'.plot_key
               = DerivedPlotAddress(land_plane_acc_pubkey,
                                    land_plane_acc.data.next_x,
                                    land_plane_acc.data.next_z)
        /\ AccountAt(req'.plot_key).data_len = 33
        /\ AccountAt(req'.plot_key).data.version = Uninitialised)
           => res' = "LandAssetAccUninitialised"]_vars

\* C17 witness: the plane's cursor is (0,1) and the plot of (0,1) is a
\* zeroed 33-byte account
C17_Witness ==
    /\ req.op = "MintNext" /\ req.is_signer
    /\ res = "LandAssetAccUninitialised"
    /\ land_plane_acc.data = LandPlane(V1, 0, 1, 1)
    /\ req.plot_key = DerivedPlotAddress(land_plane_acc_pubkey, 0, 1)
    /\ plots[req.plot_key] = NewPlotAccount(33)

\* C18: a plane slot that is not 25 bytes, or a plot slot that is not 33
\* bytes, is rejected with IncorrectDataSize wherever it is decoded:
\* by InitialisePlane, by a signed MintNext (the plane), and by a signed
\* MintNext on an initialised plane that names the derived address (the
\* plot); what the slot holds does not matter
C18_ExactSizeDecoding ==
    [][/\ (req'.op = "InitialiseLandPlane" /\ land_plane_acc.data_len # 25)
           => res' = "IncorrectDataSize"
       /\ (req'.op = "MintNext" /\ req'.is_signer
             /\ land_plane_acc.data_len # 25)
           => res' = "IncorrectDataSize"
       /\ (/\ req'.op = "MintNext" /\ req'.is_signer
           /\ PlaneIsV1(land_plane_acc)
           /\ req'.plot_key
                  = DerivedPlotAddress(land_plane_acc_pubkey,
                                       land_plane_acc.data.next_x,
                                       land_plane_acc.data.next_z)
           /\ AccountAt(req'.plot_key).data_len # 33)
           => res' = "IncorrectDataSize"]_vars

\* C18 witness: a 26-byte plane slot whose leading bytes spell an
\* initialised plane was handed to InitialisePlane and rejected for its size
C18_Witness ==
    /\ req.op = "InitialiseLandPlane"
    /\ res = "IncorrectDataSize"
    /\ land_plane_acc.data_len = 26
    /\ land_plane_acc.data.version = V1

\* C19: after InitialiseLandAsset returns Ok for a plot slot, the slot's
\* record has version V1, and a signed MintNext that follows on an
\* initialised plane with that slot at the derived address does not fail
\* with LandAssetAccUninitialised
C19_InitialiseAssetInitialises ==
    [][/\ (req'.op = "InitialiseLandAsset" /\ res' = "Ok")
           => plots'[req'.plot_key].data.version = V1
       /\ (/\ req.op = "InitialiseLandAsset" /\ res = "Ok"
           /\ req'.op = "MintNext" /\ req'.is_signer
           /\ req'.plot_key = req.plot_key
           /\ PlaneIsV1(land_plane_acc)
           /\ req'.plot_key
                  = DerivedPlotAddress(land_plane_acc_pubkey,
                                       land_plane_acc.data.next_x,
                                       land_plane_acc.data.next_z))
           => res' # "LandAssetAccUninitialised"]_vars

\* C20: while the plane is V1, 0 <= next_x <= depth and 0 <= next_z <= depth
C20_CursorBounds ==
    lp.version = V1
        => /\ 0 <= lp.next_x /\ lp.next_x <= lp.depth
           /\ 0 <= lp.next_z /\ lp.next_z <= lp.depth

\* C20 witness: the cursor is at the corner of the ring of depth 2
C20_Witness ==
    /\ lp = LandPlane(V1, 2, 2, 2)
    /\ adv_res = "Ok"
    /\ Len(visited) = 7

\* exactly one of next_x = depth and next_z = depth holds
ExactlyOneBoundary(p) == (p.next_x = p.depth) # (p.next_z = p.depth)

\* the next increment_mint call on p grows depth
GrowsDepthNext(p) == p.next_x = 0 /\ p.next_z = p.depth /\ p.depth < MAX_U64

\* C21 as stated: in every V1 plane state exactly one of next_x = depth and
\* next_z = depth holds, except in the state of each ring at which the next
\* call grows depth
C21_BoundaryAsStated ==
    lp.version = V1 => (ExactlyOneBoundary(lp) \/ GrowsDepthNext(lp))

\* C21 amended: in every V1 plane state at least one of next_x = depth and
\* next_z = depth holds; both hold only at the corner next_x = next_z = depth
\* which each ring passes once, and in every other state, the state at which
\* the next call grows depth included when depth > 0, exactly one holds
C21_Boundary ==
    /\ \A i \in 1..Len(visited) :
           /\ visited[i].next_x = visited[i].depth
                  \/ visited[i].next_z = visited[i].depth
           /\ (visited[i].depth > 0 /\ GrowsDepthNext(visited[i]))
                  => ExactlyOneBoundary(visited[i])
    /\ \A i, j \in 1..Len(visited) :
           (/\ ~ExactlyOneBoundary(visited[i])
            /\ ~ExactlyOneBoundary(visited[j])
            /\ visited[i].depth = visited[j].depth) => i = j

\* C21 witness: the cursor is at the corner of the ring of depth 1, where
\* both conditions hold and the next call does not grow depth
C21_Witness ==
    /\ lp = LandPlane(V1, 1, 1, 1)
    /\ Len(visited) = 3
    /\ ~GrowsDepthNext(lp)

\* the error of the first failing check of MintNext, in the order signer
\* bit, plane slot size, plane version, plot address, plot slot size, plot
\* version; "none" when none of the six fails
FirstFailingCheck(is_signer, plot_key, plot_acc, plane_acc) ==
    IF ~is_signer THEN "SignatureError"
    ELSE IF plane_acc.data_len # 25 THEN "IncorrectDataSize"
    ELSE IF plane_acc.data.version = Uninitialised
    THEN "LandPlaneAccUninitialised"
    ELSE IF plot_key # DerivedPlotAddress(land_plane_acc_pubkey,
                                          plane_acc.data.next_x,
                                          plane_acc.data.next_z)
    THEN "InvalidLandAssetAccKey"
    ELSE IF plot_acc.data_len # 33 THEN "IncorrectDataSize"
    ELSE IF plot_acc.data.version = Uninitialised
    THEN "LandAssetAccUninitialised"
    ELSE "none"

\* C22: whatever combination of its six checks fails, MintNext returns the
\* error of the first failing one
C22_OrderedChecks ==
    [][req'.op = "MintNext"
       => LET first == FirstFailingCheck(req'.is_signer, req'.plot_key,
                                         AccountAt(req'.plot_key),
                                         land_plane_acc) IN
          first # "none" => res' = first]_vars

\* C22 witness: the plot address is that of another coordinate pair and the
\* account at it is too short; the request was rejected for the address
C22_Witness ==
    /\ req.op = "MintNext" /\ req.is_signer
    /\ res = "InvalidLandAssetAccKey"
    /\ land_plane_acc.data = LandPlane(V1, 0, 1, 1)
    /\ land_plane_acc.data_len = 25
    /\ req.plot_key = DerivedPlotAddress(land_plane_acc_pubkey, 0, 0)
    /\ plots[req.plot_key].data_len = 32

\* C23: an instruction changes the version of the plane slot only from
\* Uninitialised to V1 and only as a successful InitialisePlane, and leaves
\* a V1 plane record, version and cursor, as it is; an advance of that
\* record keeps it V1 and does not put the cursor back at (0,0,0)
C23_VersionLifecycle ==
    [][req'.op \in {"InitialiseLandPlane", "InitialiseLandAsset", "MintNext"}
       => /\ land_plane_acc'.data.version # land_plane_acc.data.version
                 => /\ land_plane_acc.data.version = Uninitialised
                    /\ land_plane_acc'.data.version = V1
                    /\ req'.op = "InitialiseLandPlane"
                    /\ res' = "Ok"
          /\ land_plane_acc.data.version = V1
                 => /\ land_plane_acc'.data = land_plane_acc.data
                    /\ LET r == increment_mint(land_plane_acc'.data) IN
                           /\ r.self.version = V1
                           /\ r.self # LandPlane(V1, 0, 0, 0)]_vars

\* C23 witness: InitialisePlane was tried on a funded plane that is V1 with
\* its cursor at (1,0), and the plane is still that
C23_Witness ==
    /\ req.op = "InitialiseLandPlane"
    /\ res # "Ok"
    /\ land_plane_acc.data_len = 25
    /\ land_plane_acc.lamports = land_plane_minimum_balance
    /\ land_plane_acc.data = LandPlane(V1, 1, 0, 1)

\* C24: the result of InitialisePlane and the record it leaves are those of
\* the same request with the signer bit the other way round; on a 25-byte,
\* rent-exempt, Uninitialised slot it succeeds either way
C24_NoSignerRequired ==
    [][req'.op = "InitialiseLandPlane"
       => LET other == initialise_land_plane(~req'.is_signer, land_plane_acc) IN
          /\ res' = other.res
          /\ land_plane_acc' = other.acc
          /\ (/\ land_plane_acc.data_len = 25
              /\ land_plane_acc.data.version = Uninitialised
              /\ land_plane_acc.lamports >= land_plane_minimum_balance)
                 => res' = "Ok"]_vars

\* C24 witness: a request without any signer initialised the plane
C24_Witness ==
    /\ req.op = "InitialiseLandPlane"
    /\ ~req.is_signer
    /\ res = "Ok"
    /\ land_plane_acc.data = LandPlane(V1, 0, 0, 0)

\* C25: InitialisePlane checks the slot size, then the version, then rent:
\* a wrongly sized slot gives IncorrectDataSize whatever its balance and
\* contents, and a V1 plane gives AlreadyInUse whatever its balance
C25_InitialiseCheckOrder ==
    [][req'.op = "InitialiseLandPlane"
       => res' = IF land_plane_acc.data_len # 25 THEN "IncorrectDataSize"
                 ELSE IF land_plane_acc.data.version # Uninitialised
                 THEN "AlreadyInUse"
                 ELSE IF land_plane_acc.lamports < land_plane_minimum_balance
                 THEN "NotRentExempt"
                 ELSE "Ok"]_vars

\* C25 witness: a V1 plane holding less than the rent-exempt minimum was
\* rejected with AlreadyInUse
C25_Witness ==
    /\ req.op = "InitialiseLandPlane"
    /\ res = "AlreadyInUse"
    /\ land_plane_acc.lamports = 42
    /\ land_plane_acc.data.version = V1

\* C26: from any plane state with fields in 0..MAX an advance leaves every
\* field in 0..MAX; next_z grows only from below depth and by exactly one,
\* next_x shrinks only from above 0 and by exactly one, depth grows only
\* from below MAX and by exactly one
C26_NoArithmeticWrap ==
    [][/\ lp'.next_x \in U64 /\ lp'.next_z \in U64 /\ lp'.depth \in U64
       /\ lp'.next_z > lp.next_z
              => lp.next_z < lp.depth /\ lp'.next_z = lp.next_z + 1
       /\ lp'.next_x < lp.next_x
              => lp.next_x > 0 /\ lp'.next_x = lp.next_x - 1
       /\ lp'.depth # lp.depth
              => lp.depth < MAX_U64 /\ lp'.depth = lp.depth + 1
       /\ (lp.next_z >= lp.depth /\ lp.next_x = 0 /\ lp.depth = MAX_U64)
              => lp' = lp /\ adv_res' = "LandComplete"]_vars

\* C26 witness: from the state (3, MAX-1, MAX), which the spiral never
\* visits, one advance took next_z to MAX
C26_Witness ==
    /\ Len(visited) = 2
    /\ visited[1] = LandPlane(V1, 3, MAX_U64 - 1, MAX_U64)
    /\ adv_res = "Ok"
    /\ lp = LandPlane(V1, 3, MAX_U64, MAX_U64)

====
